---- MODULE Spec2Model ----
(***************************************************************************)
(* Hierarchical list-numbering reconstruction of debug.py                   *)
(* (GenerateParaRefsForDocx): the numeral formatters, the per-document      *)
(* counter state advanced by get_bullet_number, the text clean-up of        *)
(* extract_text_from_paragraph, table rendering, and the main pass of       *)
(* process_docx_file with its header inference; and the literal-bullet      *)
(* variant of decode.py (get_bullet_level, build_hierarchical_number and    *)
(* the paragraph loop of the script).                                       *)
(*                                                                          *)
(* Formatting, joining, stripping and searching of strings are computed    *)
(* character by character. numFmt names are compared as whole strings.      *)
(***************************************************************************)
EXTENDS Integers, Sequences, FiniteSets, TLC

VARIABLES
    numbering_map,    \* self.numbering_map: numId -> level -> <<numFmt, lvlText>>
    global_counters,  \* self.global_counters (defaultdict(int)): level -> count
    global_stack,     \* self.global_stack: level -> last rendered numeral
    last_numId,       \* self.last_numId
    last_ilvl,        \* self.last_ilvl
    element,          \* the body element (or paragraph) handled by the last step
    bullet,           \* the label returned for the last paragraph handled
    para_text,        \* the cleaned text returned for the last paragraph handled
    pc,               \* position of process_docx_file: "idle", "main",
                      \* "fallback" (extract_plain_text is to run), "done"
    body,             \* the elements handled so far, in document order
    document,         \* the body elements of the document, known once the
                      \* main pass has ended
    markdown_output,  \* the string process_docx_file returned
    labels,           \* the labels returned for the document's paragraphs by
                      \* the running pass, in call order
    history,          \* the passes that have ended: catalog, elements, labels
    current_header,   \* local current_header of process_docx_file
    data,             \* self.data
    tables,           \* self.tables
    table_counter,    \* self.table_counter
    para_id_counter,  \* self.para_id_counter
    para,             \* decode.py: the paragraph the loop handled last
    hierarchical_levels,  \* decode.py: hierarchical_levels
    bullet_text,      \* decode.py: bullet_text of the last paragraph with text
    rows_data         \* decode.py: rows_data

vars == <<numbering_map, global_counters, global_stack, last_numId, last_ilvl,
          element, bullet, para_text, pc, body, document, markdown_output, labels,
          history, current_header, data, tables, table_counter,
          para_id_counter, para, hierarchical_levels, bullet_text, rows_data>>

\* the state of debug.py
debug == <<numbering_map, global_counters, global_stack, last_numId, last_ilvl,
           element, bullet, para_text, pc, body, document, markdown_output,
           labels, history, current_header, data, tables, table_counter,
           para_id_counter>>

\* the state of decode.py
decode == <<para, hierarchical_levels, bullet_text, rows_data>>

tracker == <<global_counters, global_stack, last_numId, last_ilvl>>

(***************************************************************************)
(* Bounds of the model.                                                     *)
(***************************************************************************)
\* The unit harness makes at most MaxCalls calls.
MaxCalls == 3
\* The formatter harness starts from counters of at most MaxValue.
MaxValue == 5000
\* The main pass handles documents of at most MaxElems body elements.
MaxElems == 4
\* The loop of decode.py collects at most MaxRows rows.
MaxRows == 3

(***************************************************************************)
(* Program constants.                                                       *)
(***************************************************************************)
\* range(ilvl_int + 1, 9): the levels the tracker resets are 0..8.
NumLevels == 9
\* --start_index default / __init__ default.
DefaultStartIndex == 100000
\* divmod(num - 1, 26)
LetterBase == 26
\* word_count <= 6
ShortWords == 6

AllLevels == 0 .. (NumLevels - 1)

\* Python None, where the program stores None in a string-valued slot.
None == "<None>"

(***************************************************************************)
(* Characters and strings. A Python string is a TLA+ string; its character  *)
(* at position i is SubSeq(s, i, i).                                         *)
(***************************************************************************)
Digits == "0123456789"
Upper == "ABCDEFGHIJKLMNOPQRSTUVWXYZ"
Lower == "abcdefghijklmnopqrstuvwxyz"

\* s[i - 1] of Python: the character at position i, counted from 1
At(s, i) == SubSeq(s, i, i)

Chars(s) == {At(s, i) : i \in 1 .. Len(s)}
SpaceChars == {" ", "\n", "\t"}
WordChars == Chars(Digits) \cup Chars(Upper) \cup Chars(Lower) \cup {"_"}
UpperChars == Chars(Upper)

\* \s of the regular expressions and of str.strip / str.split.
IsSpace(c) == c \in SpaceChars
\* [\d\w] of the numbering regular expression (ASCII part).
IsWord(c) == c \in WordChars

\* str.lower on one character
lower_char(c) ==
    IF c \in UpperChars
      THEN At(Lower, CHOOSE i \in 1 .. Len(Upper) : At(Upper, i) = c)
      ELSE c

RECURSIVE lower(_)
\* str.lower
lower(s) == IF Len(s) = 0 THEN ""
            ELSE lower_char(Head(s)) \o lower(Tail(s))

\* chr(65 + rem) for rem in 0..25
chr(code) == At(Upper, code - 64)

RECURSIVE str(_)
\* str(n) for an int n >= 0
str(n) == IF n < 10 THEN At(Digits, n + 1)
          ELSE str(n \div 10) \o At(Digits, (n % 10) + 1)

RECURSIVE join(_, _)
\* sep.join(parts)
join(sep, parts) ==
    IF Len(parts) = 0 THEN ""
    ELSE IF Len(parts) = 1 THEN parts[1]
    ELSE parts[1] \o sep \o join(sep, Tail(parts))

\* sub in s
contains(sub, s) ==
    \E i \in 1 .. (Len(s) - Len(sub) + 1) : SubSeq(s, i, i + Len(sub) - 1) = sub

RECURSIVE lstrip(_)
lstrip(s) == IF Len(s) > 0 /\ IsSpace(Head(s)) THEN lstrip(Tail(s)) ELSE s
RECURSIVE rstrip(_)
rstrip(s) == IF Len(s) > 0 /\ IsSpace(At(s, Len(s)))
             THEN rstrip(SubSeq(s, 1, Len(s) - 1)) ELSE s
\* str.strip
strip(s) == lstrip(rstrip(s))

RECURSIVE count_words(_, _, _)
\* the number of maximal runs of non-space characters of s from position i
\* on; inword says whether position i - 1 belongs to a run
count_words(s, i, inword) ==
    IF i > Len(s) THEN 0
    ELSE IF IsSpace(At(s, i)) THEN count_words(s, i + 1, FALSE)
    ELSE (IF inword THEN 0 ELSE 1) + count_words(s, i + 1, TRUE)
\* len(para_text.split())
word_count_of(s) == count_words(s, 1, FALSE)

(***************************************************************************)
(* to_roman and to_letter.                                                  *)
(***************************************************************************)
vals == << <<1000, "M">>, <<900, "CM">>, <<500, "D">>, <<400, "CD">>,
           <<100, "C">>, <<90, "XC">>, <<50, "L">>, <<40, "XL">>,
           <<10, "X">>, <<9, "IX">>, <<5, "V">>, <<4, "IV">>, <<1, "I">> >>

RECURSIVE to_roman_loop_strict(_, _, _)
\* mutant of to_roman_loop: "while num > v" leaves a remainder equal to v
to_roman_loop_strict(num, k, result) ==
    IF k > Len(vals) THEN result
    ELSE IF num > vals[k][1]
      THEN to_roman_loop_strict(num - vals[k][1], k, result \o vals[k][2])
      ELSE to_roman_loop_strict(num, k + 1, result)

RECURSIVE to_roman_loop(_, _, _)
\* for v, sym in vals: while num >= v: result += sym; num -= v
to_roman_loop(num, k, result) ==
    IF k > Len(vals) THEN result
    ELSE IF num >= vals[k][1]
      THEN to_roman_loop(num - vals[k][1], k, result \o vals[k][2])
      ELSE to_roman_loop(num, k + 1, result)

\* return result.lower() if lowercase else result
cased(result, lowercase) == IF lowercase THEN lower(result) ELSE result

to_roman(num, lowercase) == cased(to_roman_loop(num, 1, ""), lowercase)

RECURSIVE to_letter_loop_zero_based(_, _)
\* mutant of to_letter_loop: divmod(num, 26), the digits are 0..25
to_letter_loop_zero_based(num, result) ==
    IF num > 0
      THEN to_letter_loop_zero_based(num \div LetterBase,
                                     chr(65 + (num % LetterBase)) \o result)
      ELSE result

RECURSIVE to_letter_loop(_, _)
\* while num > 0: num, rem = divmod(num - 1, 26); result = chr(65 + rem) + result
to_letter_loop(num, result) ==
    IF num > 0
      THEN to_letter_loop((num - 1) \div LetterBase,
                          chr(65 + ((num - 1) % LetterBase)) \o result)
      ELSE result

to_letter(num, lowercase) == cased(to_letter_loop(num, ""), lowercase)

(***************************************************************************)
(* The numbering catalog (the result of get_numbering).                     *)
(***************************************************************************)
\* The numFmt names that occur in the catalogs.
FmtNames == {"decimal", "upperLetter", "lowerLetter", "upperRoman",
             "lowerRoman", "bullet"}

\* s.endswith(suffix)
endswith(s, suffix) ==
    Len(s) >= Len(suffix) /\ SubSeq(s, Len(s) - Len(suffix) + 1, Len(s)) = suffix

\* A catalog with four definitions; definitions "2", "3" and "4" leave
\* levels undefined, definition "9" is referenced by paragraphs but not
\* defined. Definition "4" is lowerLetter from level 0 on.
MainCatalog ==
    [id \in {"1", "2", "3", "4"} |->
       IF id = "1" THEN [l \in AllLevels |-> <<"decimal", "%1">>]
       ELSE IF id = "2" THEN
         [l \in {0, 1, 2, NumLevels - 1} |->
            IF l = 0 THEN <<"upperLetter", "%1">>
            ELSE IF l = 1 THEN <<"lowerLetter", "%2">>
            ELSE IF l = 2 THEN <<"lowerRoman", "%3">>
            ELSE <<"upperRoman", "%9">>]
       ELSE IF id = "3" THEN
         [l \in {0, 1, 2} |->
            IF l = 0 THEN <<"upperRoman", "%1">>
            ELSE IF l = 1 THEN <<"lowerLetter", "%2">>
            ELSE <<"bullet", "o">>]
       ELSE
         [l \in {0, 1} |-> <<"lowerLetter", "%1">>]]

\* No numbering part, or the parse failed before any definition was stored.
EmptyCatalog == <<>>

Catalogs == {MainCatalog, EmptyCatalog}

NumIds == {"1", "2", "3", "4", "9"}

(***************************************************************************)
(* get_bullet_number.                                                       *)
(***************************************************************************)
\* The tracker state as a value, so that one step can make several calls.
TrackerState ==
    [global_counters |-> global_counters, global_stack |-> global_stack,
     last_numId |-> last_numId, last_ilvl |-> last_ilvl]

\* The cleared tracker: global_counters.clear(), global_stack.clear(),
\* last_numId = None, last_ilvl = -1.
ClearedTracker ==
    [global_counters |-> [l \in AllLevels |-> 0], global_stack |-> <<>>,
     last_numId |-> None, last_ilvl |-> -1]

\* "not numId": None and the empty string are falsy
falsy(s) == s \in {None, ""}

\* mutant of lookup_fmt: the default of an absent entry is not decimal
lookup_fmt_roman(map, numId, level) ==
    IF numId \in DOMAIN map /\ level \in DOMAIN map[numId]
      THEN map[numId][level][1]
      ELSE "lowerRoman"

\* self.numbering_map.get(numId, {}).get(str(level), ("decimal", "%1"))[0]
lookup_fmt(map, numId, level) ==
    IF numId \in DOMAIN map /\ level \in DOMAIN map[numId]
      THEN map[numId][level][1]
      ELSE "decimal"

\* mutant of format_changed: the test "self.last_ilvl == ilvl_int" is lost
format_changed_any_level(map, st, numId, ilvl) ==
    /\ ~falsy(st.last_numId)
    /\ lookup_fmt(map, numId, ilvl) # lookup_fmt(map, st.last_numId, ilvl)

\* self.last_numId and self.last_ilvl == ilvl_int and fmt_level != prev_fmt
format_changed(map, st, numId, ilvl) ==
    /\ ~falsy(st.last_numId)
    /\ st.last_ilvl = ilvl
    /\ lookup_fmt(map, numId, ilvl) # lookup_fmt(map, st.last_numId, ilvl)

\* mutant of increment_level: the reset on a format change comes after the
\* increment
increment_then_reset(map, st, numId, ilvl) ==
    [st.global_counters EXCEPT
       ![ilvl] = IF format_changed(map, st, numId, ilvl) THEN 0 ELSE @ + 1]

\* the reset on a format change, then global_counters[ilvl_int] += 1
increment_level(map, st, numId, ilvl) ==
    [st.global_counters EXCEPT
       ![ilvl] = (IF format_changed(map, st, numId, ilvl) THEN 0 ELSE @) + 1]

\* mutant of reset_deeper: range(ilvl_int + 1, 8) misses the deepest level
reset_deeper_short(counters, ilvl) ==
    [d \in AllLevels |->
       IF d \in (ilvl + 1) .. (NumLevels - 2) THEN 0 ELSE counters[d]]

\* mutant of reset_deeper: every level but the current one is reset
reset_others(counters, ilvl) ==
    [d \in AllLevels |-> IF d # ilvl THEN 0 ELSE counters[d]]

\* mutant of reset_deeper: range(ilvl_int, 9) resets the current level too
reset_from_current(counters, ilvl) ==
    [d \in AllLevels |->
       IF d \in ilvl .. (NumLevels - 1) THEN 0 ELSE counters[d]]

\* mutant of reset_deeper: the counters of deeper levels are kept
reset_deeper_none(counters, ilvl) == counters

\* for deeper in range(ilvl_int + 1, 9): self.global_counters[deeper] = 0
reset_deeper(counters, ilvl) ==
    [d \in AllLevels |->
       IF d \in (ilvl + 1) .. (NumLevels - 1) THEN 0 ELSE counters[d]]

\* mutant of pop_deeper: the cache entries of deeper levels are kept
pop_deeper_none(stack, ilvl) == stack

\* for deeper in range(ilvl_int + 1, 9): self.global_stack.pop(deeper, None)
pop_deeper(stack, ilvl) ==
    [l \in (DOMAIN stack) \ ((ilvl + 1) .. (NumLevels - 1)) |-> stack[l]]

\* mutant of format_as: lowerLetter is a letter whatever the level above
format_as_always_letter(fmt_level, prev_level_fmt, n) ==
    IF fmt_level = "decimal" THEN str(n)
    ELSE IF fmt_level = "upperLetter" THEN to_letter(n, FALSE)
    ELSE IF fmt_level = "lowerLetter" THEN to_letter(n, TRUE)
    ELSE IF fmt_level = "upperRoman" THEN to_roman(n, FALSE)
    ELSE IF fmt_level = "lowerRoman" THEN to_roman(n, TRUE)
    ELSE str(n)

\* the branch on the numbering format: the numeral of n under fmt_level,
\* where prev_level_fmt is the format of the level above (None at level 0)
format_as(fmt_level, prev_level_fmt, n) ==
    IF fmt_level = "decimal" THEN str(n)
    ELSE IF fmt_level = "upperLetter" THEN to_letter(n, FALSE)
    ELSE IF fmt_level = "lowerLetter" THEN
      (IF ~falsy(prev_level_fmt) /\ endswith(prev_level_fmt, "Letter")
         THEN to_letter(n, TRUE)
         ELSE str(n))
    ELSE IF fmt_level = "upperRoman" THEN to_roman(n, FALSE)
    ELSE IF fmt_level = "lowerRoman" THEN to_roman(n, TRUE)
    ELSE str(n)

\* the numeral of counter value n at a level of definition numId
format_value(map, numId, level, n) ==
    format_as(lookup_fmt(map, numId, level),
              IF level > 0 THEN lookup_fmt(map, numId, level - 1) ELSE None,
              n)

\* label_parts: one numeral per level 0..ilvl (part k is level k - 1)
build_label_parts(map, numId, ilvl, counters) ==
    [k \in 1 .. (ilvl + 1) |-> format_value(map, numId, k - 1, counters[k - 1])]

\* self.global_stack[level] = val for every level of the label
store_stack(stack, parts) ==
    [l \in (DOMAIN stack) \cup (0 .. (Len(parts) - 1)) |->
       IF l < Len(parts) THEN parts[l + 1] ELSE stack[l]]

\* ".".join(label_parts)
join_label(parts) == join(".", parts)

\* the paragraph carries no usable numbering reference: numPr is None, or
\* "not numId"
no_numbering(numPr) == ~numPr.found \/ falsy(numPr.numId)

\* the state left by a call that returns "" early
unnumbered_result(st) == st

\* the end of get_bullet_number: the stack takes the label parts, last_numId
\* and last_ilvl are set, the parts are joined
labelled_result(stack, numId, ilvl, counters, label_parts) ==
    [state |->
       [global_counters |-> counters,
        global_stack |-> store_stack(pop_deeper(stack, ilvl), label_parts),
        last_numId |-> numId,
        last_ilvl |-> ilvl],
     bullet |-> join_label(label_parts)]

\* get_bullet_number from the point where the counters are updated
numbered_result(map, stack, numId, ilvl, counters) ==
    labelled_result(stack, numId, ilvl, counters,
                    build_label_parts(map, numId, ilvl, counters))

\* get_bullet_number: the tracker state after the call, and the label
get_bullet_number(map, st, numPr) ==
    IF no_numbering(numPr)
      THEN [state |-> unnumbered_result(st), bullet |-> ""]
      ELSE numbered_result(map, st.global_stack, numPr.numId, numPr.ilvl,
                           reset_deeper(increment_level(map, st, numPr.numId,
                                                        numPr.ilvl),
                                        numPr.ilvl))

(***************************************************************************)
(* extract_insertions_only and extract_text_from_paragraph.                 *)
(***************************************************************************)
RECURSIVE visible_parts(_)
\* the text of the hyperlink, r and ins children, in order; del is skipped
visible_parts(children) ==
    IF Len(children) = 0 THEN ""
    ELSE (IF children[1].tag \in {"hyperlink", "r", "ins"}
            THEN children[1].text ELSE "")
         \o visible_parts(Tail(children))

extract_insertions_only(paragraph) == strip(visible_parts(paragraph.children))

RECURSIVE word_run_end(_, _)
\* the first position at or after i that holds no [\d\w] character
word_run_end(s, i) ==
    IF i <= Len(s) /\ IsWord(At(s, i)) THEN word_run_end(s, i + 1) ELSE i

RECURSIVE space_run_end(_, _)
\* the first position at or after i that holds no \s character
space_run_end(s, i) ==
    IF i <= Len(s) /\ IsSpace(At(s, i)) THEN space_run_end(s, i + 1) ELSE i

RECURSIVE dotted_groups(_, _, _)
\* (?:\.[\d\w]+)* taken greedily from position j: <<end, position of the
\* last group's dot or 0>>
dotted_groups(s, j, lastDot) ==
    IF j + 1 <= Len(s) /\ At(s, j) = "." /\ IsWord(At(s, j + 1))
      THEN dotted_groups(s, word_run_end(s, j + 1), j)
      ELSE <<j, lastDot>>

\* [\.\)]\s* after the tokens, which end before position g[1]. When no
\* terminator follows the last token, the engine backtracks and gives up
\* the last group, whose dot (at g[2]) then is the terminator.
terminated_len(s, g) ==
    IF g[1] <= Len(s) /\ At(s, g[1]) \in {".", ")"}
      THEN space_run_end(s, g[1] + 1) - 1
      ELSE g[2]

\* the tokens after the first one, which ends before position e1
tokens_len(s, e1) ==
    IF e1 = 1 THEN 0 ELSE terminated_len(s, dotted_groups(s, e1, 0))

\* the length of the match of ^[\d\w]+(?:\.[\d\w]+)*[\.\)]\s* in s, 0 when
\* there is none
numbering_match_len(s) == tokens_len(s, word_run_end(s, 1))

\* re.sub(r'^[\d\w]+(?:\.[\d\w]+)*[\.\)]\s*', '', text)
strip_numbering(text) == SubSeq(text, numbering_match_len(text) + 1, Len(text))

\* mutant of clean_text: the numbering is removed whatever the label
clean_text_always(bullet_, text) == strip_numbering(text)

\* if bullet: text = re.sub(...)
clean_text(bullet_, text) ==
    IF Len(bullet_) > 0 THEN strip_numbering(text) ELSE text

\* return bullet, text
cleaned_result(r, text) ==
    [state |-> r.state, bullet |-> r.bullet, text |-> clean_text(r.bullet, text)]

\* extract_text_from_paragraph: tracker state after, label and text
extract_text_from_paragraph(map, st, paragraph) ==
    cleaned_result(get_bullet_number(map, st, paragraph.numPr),
                   extract_insertions_only(paragraph))

(***************************************************************************)
(* extract_cell_content and process_table. Each loop carries the tracker    *)
(* state and the list it builds.                                            *)
(***************************************************************************)
\* A cell holds paragraphs; the documents of the model nest no table in a
\* cell, so the '}tbl' branch of extract_cell_content is never taken.

\* any(cell.strip() for cell in cells)
any_nonblank(cells) == \E i \in DOMAIN cells : Len(strip(cells[i])) > 0

\* "| " + " | ".join(cells) + " |"
table_line(cells) == "| " \o join(" | ", cells) \o " |"

RECURSIVE repeat(_, _)
\* s * n
repeat(s, n) == IF n <= 0 THEN "" ELSE s \o repeat(s, n - 1)

\* "|" + " --- |" * len(header_cells)
separator_line(n) == "|" \o repeat(" --- |", n)

\* the body of the paragraph branch: content_parts gets the text, with the
\* label in front when there is one, unless the text is empty
add_cell_paragraph(acc, r) ==
    [state |-> r.state,
     parts |-> IF Len(r.text) = 0 THEN acc.parts
               ELSE IF Len(r.bullet) > 0
                 THEN Append(acc.parts, r.bullet \o " " \o r.text)
                 ELSE Append(acc.parts, r.text)]

RECURSIVE extract_cell_parts(_, _, _)
\* the loop of extract_cell_content over the cell's elements
extract_cell_parts(map, acc, elements) ==
    IF Len(elements) = 0 THEN acc
    ELSE extract_cell_parts(
           map,
           add_cell_paragraph(
             acc, extract_text_from_paragraph(map, acc.state, elements[1])),
           Tail(elements))

\* return " ".join(content_parts).strip()
cell_result(r) == [state |-> r.state, content |-> strip(join(" ", r.parts))]

\* extract_cell_content: the tracker state after, and the cell's content
extract_cell_content(map, st, cell) ==
    cell_result(extract_cell_parts(map, [state |-> st, parts |-> <<>>], cell))

add_cell(acc, c) ==
    [state |-> c.state, contents |-> Append(acc.contents, c.content)]

RECURSIVE extract_row_cells(_, _, _)
\* [self.extract_cell_content(cell) for cell in row.cells]
extract_row_cells(map, acc, cells) ==
    IF Len(cells) = 0 THEN acc
    ELSE extract_row_cells(
           map, add_cell(acc, extract_cell_content(map, acc.state, cells[1])),
           Tail(cells))

\* if any(cell.strip() for cell in row_cells): markdown_table.append(...)
add_data_row(acc, row) ==
    [state |-> row.state,
     lines |-> IF any_nonblank(row.contents)
                 THEN Append(acc.lines, table_line(row.contents))
                 ELSE acc.lines]

RECURSIVE data_row_lines(_, _, _)
\* for row in rows[1:]
data_row_lines(map, acc, rows) ==
    IF Len(rows) = 0 THEN acc
    ELSE data_row_lines(
           map,
           add_data_row(acc, extract_row_cells(
                               map, [state |-> acc.state, contents |-> <<>>],
                               rows[1])),
           Tail(rows))

\* mutant of header_is_blank: the test of the header row is lost
header_is_blank_never(header_cells) == FALSE

\* a table whose header row has no non-blank cell renders as ""
header_is_blank(header_cells) == ~any_nonblank(header_cells)

\* return "\n".join(markdown_table)
table_result(r) == [state |-> r.state, md |-> join("\n", r.lines)]

\* process_table after the header row was extracted. The final test of the
\* source (no data row and a blank header) cannot succeed once the header
\* row was found non-blank.
table_after_header(map, header, rows) ==
    IF header_is_blank(header.contents)
      THEN [state |-> header.state, md |-> ""]
      ELSE table_result(
             data_row_lines(
               map,
               [state |-> header.state,
                lines |-> <<table_line(header.contents),
                            separator_line(Len(header.contents))>>],
               Tail(rows)))

\* process_table: the tracker state after rendering, and the markdown
process_table(map, st, table) ==
    IF Len(table.rows) = 0 THEN [state |-> st, md |-> ""]
    ELSE table_after_header(
           map,
           extract_row_cells(map, [state |-> st, contents |-> <<>>],
                             table.rows[1]),
           table.rows)

(***************************************************************************)
(* generate_markdown_table_with_header and extract_plain_text.              *)
(***************************************************************************)
RECURSIVE replace_from(_, _, _, _)
\* s with every old at or after position i replaced by new, and the
\* characters before position i dropped
replace_from(s, i, old, new) ==
    IF i > Len(s) THEN ""
    ELSE (IF At(s, i) = old THEN new ELSE At(s, i))
         \o replace_from(s, i + 1, old, new)

\* s.replace(old, new) for a one-character old; a string without old is
\* returned as it is
replace(s, old, new) ==
    IF contains(old, s) THEN replace_from(s, 1, old, new) ELSE s

\* .replace('|', '\\|')
escape_bar(s) == replace(s, "|", "\\|")
\* .replace('|', '\\|').replace('\n', '<br>')
escape_text(s) == replace(escape_bar(s), "\n", "<br>")

\* item.get(key, '')
item_get(item, key) == IF key \in DOMAIN item THEN item[key] ELSE ""

\* f"| {item['para_id']} | {escaped_header} | {escaped_bullet} | {escaped_text} |"
markdown_row(item) ==
    "| " \o item.para_id \o " | " \o escape_text(item_get(item, "header"))
      \o " | " \o escape_bar(item_get(item, "bullet"))
      \o " | " \o escape_text(item.para_text) \o " |"

MarkdownHead ==
    <<"| para_id | header | bullet | para_text |",
      "|---------|---------|---------|-----------|">>

markdown_lines(data_) ==
    MarkdownHead \o [k \in 1 .. Len(data_) |-> markdown_row(data_[k])]

RECURSIVE table_listing(_, _, _)
\* for table_info in self.tables: result += f"\n{tag}{index}:\n{content}\n"
table_listing(result_, tag, tables_) ==
    IF Len(tables_) = 0 \/ Len(result_) < 0 THEN result_
    ELSE table_listing(
           result_ \o "\n" \o tag \o str(tables_[1].index) \o ":\n"
             \o tables_[1].content \o "\n",
           tag, Tail(tables_))

\* if self.tables: result += "\n\n", then the listing of the tables
with_tables(result_, tag, tables_) ==
    IF Len(tables_) > 0 THEN table_listing(result_ \o "\n\n", tag, tables_)
    ELSE result_

generate_markdown_table_with_header(data_, tables_) ==
    IF Len(data_) = 0 THEN ""
    ELSE with_tables(join("\n", markdown_lines(data_)), "TABLE_", tables_)

RECURSIVE runs_text(_)
\* paragraph.text of python-docx: the text of the runs and hyperlinks that
\* are children of the paragraph; w:ins and w:del are no runs
runs_text(children) ==
    IF Len(children) = 0 THEN ""
    ELSE (IF children[1].tag \in {"r", "hyperlink"} THEN children[1].text ELSE "")
         \o runs_text(Tail(children))

\* if paragraph.text.strip()
has_text(paragraph) == Len(strip(runs_text(paragraph.children))) > 0

\* mutant of add_plain_paragraph: the line is the text without the label
add_plain_paragraph_text_only(acc, r) ==
    [state |-> r.state,
     labels |-> Append(acc.labels, r.bullet),
     full_text |-> IF Len(r.text) = 0 THEN acc.full_text
                   ELSE Append(acc.full_text, r.text)]

\* the body of the paragraph loop of extract_plain_text
add_plain_paragraph(acc, r) ==
    [state |-> r.state,
     labels |-> Append(acc.labels, r.bullet),
     full_text |-> IF Len(r.text) = 0 THEN acc.full_text
                   ELSE IF Len(r.bullet) > 0
                     THEN Append(acc.full_text, r.bullet \o " " \o r.text)
                     ELSE Append(acc.full_text, r.text)]

RECURSIVE plain_paragraphs(_, _, _)
\* for paragraph in doc.paragraphs: the paragraphs of the body, in order;
\* acc is what the iterations before this one left
plain_paragraphs(map, acc, elements) ==
    IF Len(elements) = 0 \/ Len(acc.full_text) < 0 THEN acc
    ELSE IF elements[1].kind = "p" /\ has_text(elements[1])
      THEN plain_paragraphs(
             map,
             add_plain_paragraph(
               acc, extract_text_from_paragraph(map, acc.state, elements[1])),
             Tail(elements))
      ELSE plain_paragraphs(map, acc, Tail(elements))

\* f"SEE TABLE_#{table_index} below"
see_table_plain(n) == "SEE TABLE_#" \o str(n) \o " below"

\* the state of extract_plain_text between its two loops: self.tables is
\* what the instance holds, table_index is 0
before_tables(acc, tables_) ==
    [state |-> acc.state, labels |-> acc.labels, full_text |-> acc.full_text,
     tables |-> tables_, table_index |-> 0]

\* the body of the table loop of extract_plain_text
add_plain_table(acc, r) ==
    [state |-> r.state,
     labels |-> acc.labels,
     table_index |-> acc.table_index + 1,
     tables |-> IF Len(r.md) > 0
                  THEN Append(acc.tables, [index |-> acc.table_index + 1,
                                           content |-> r.md])
                  ELSE acc.tables,
     full_text |-> IF Len(r.md) > 0
                     THEN Append(acc.full_text, see_table_plain(acc.table_index + 1))
                     ELSE acc.full_text]

RECURSIVE plain_tables(_, _, _)
\* for table in doc.tables: the tables of the body, in order; acc is what
\* the iterations before this one left
plain_tables(map, acc, elements) ==
    IF Len(elements) = 0 \/ acc.table_index < 0 THEN acc
    ELSE IF elements[1].kind = "tbl"
      THEN plain_tables(map,
                        add_plain_table(acc, process_table(map, acc.state,
                                                           elements[1])),
                        Tail(elements))
      ELSE plain_tables(map, acc, Tail(elements))

\* result = "\n\n".join(full_text), then the listing of self.tables
plain_result(acc) ==
    [state |-> acc.state, labels |-> acc.labels, tables |-> acc.tables,
     result |-> with_tables(join("\n\n", acc.full_text), "TABLE_#", acc.tables)]

\* extract_plain_text on a document that opens: the tracker is cleared, the
\* paragraphs are rendered, then the tables
extract_plain_text(map, tables_, elements) ==
    plain_result(
      plain_tables(
        map,
        before_tables(
          plain_paragraphs(map,
                           [state |-> ClearedTracker, labels |-> <<>>,
                            full_text |-> <<>>],
                           elements),
          tables_),
        elements))

(***************************************************************************)
(* Documents: the paragraphs and tables the steps draw from.                *)
(***************************************************************************)
\* w:numPr of a paragraph: absent, or present with w:numId and w:ilvl
NoNumPr == [found |-> FALSE, numId |-> None, ilvl |-> 0]
NumPr(numId, ilvl) == [found |-> TRUE, numId |-> numId, ilvl |-> ilvl]

Paragraph(style, children, numPr) ==
    [kind |-> "p", style |-> style, children |-> children, numPr |-> numPr]
Run(text) == [tag |-> "r", text |-> text]
Del(text) == [tag |-> "del", text |-> text]
Table(rows) == [kind |-> "tbl", rows |-> rows]

\* The value of `element` before the first element is iterated.
NoElement == [kind |-> "none"]

StyleNormal == "Normal"
StyleHeading == "Heading 2"

\* "1. Scope": two words, with a leading numeral
TextShort == <<Run("1. "), Run("Scope")>>
\* "a b c d e f g": seven words; a deleted run is not part of the text
TextLong == <<Run("a b c d"), Del("x"), Run(" e f g")>>
\* whitespace only: the paragraph is skipped after its label was computed
TextBlank == <<Run(" ")>>
\* "a) Terms": a leading letter with a closing parenthesis
TextParen == <<Run("a) Terms")>>

\* The levels the unit harness observes: the two shallowest and the deepest.
HarnessLevels == {0, 1, NumLevels - 1}

\* The paragraphs of the unit harness: every numbering reference, with and
\* without a definition id.
HarnessNumPrs ==
    {NoNumPr, NumPr("", 0)}
      \cup {NumPr(id, l) : id \in NumIds, l \in HarnessLevels}
HarnessParagraphs ==
    {Paragraph(StyleNormal, TextShort, np) : np \in HarnessNumPrs}
      \cup {Paragraph(StyleNormal, TextParen, np) : np \in {NoNumPr, NumPr("1", 0)}}

\* The body paragraphs of the main pass.
BodyNumPrs == {NoNumPr, NumPr("1", 0), NumPr("1", 1)}
BodyShapes == {<<StyleNormal, TextShort>>, <<StyleNormal, TextLong>>,
               <<StyleHeading, TextShort>>}
\* every numbering reference in the plain short shape; the long and the
\* heading shape as sub-items
BodyParagraphs ==
    {Paragraph(StyleNormal, TextShort, np) : np \in BodyNumPrs}
      \cup {Paragraph(sh[1], sh[2], NumPr("1", 1)) : sh \in BodyShapes}

\* A table with a numbered paragraph in its header cell and a data row.
TableNumbered ==
    Table(<< << <<Paragraph(StyleNormal, TextShort, NumPr("1", 0))>> >>,
             << <<Paragraph(StyleNormal, TextLong, NoNumPr)>> >> >>)
\* A table whose header cell holds a numbered paragraph without text, with
\* a data row of text.
TableBlank ==
    Table(<< << <<Paragraph(StyleNormal, TextBlank, NumPr("1", 0))>> >>,
             << <<Paragraph(StyleNormal, TextLong, NoNumPr)>> >> >>)
\* A table of plain text cells.
TablePlain ==
    Table(<< << <<Paragraph(StyleNormal, TextLong, NoNumPr)>>,
                <<>> >> >>)
BodyTables == {TableNumbered, TableBlank, TablePlain}

\* The elements at which the main pass is abandoned.
FailingElements ==
    {Paragraph(StyleNormal, TextShort, NumPr("1", 0)), TableNumbered}

StartIndexes == {DefaultStartIndex}

(***************************************************************************)
(* decode.py: the literal-bullet variant. The label of a list paragraph is  *)
(* built from the list text the document shows.                             *)
(***************************************************************************)
RECURSIVE rstrip_dots(_)
\* .rstrip(".")
rstrip_dots(s) == IF Len(s) > 0 /\ At(s, Len(s)) = "."
                    THEN rstrip_dots(SubSeq(s, 1, Len(s) - 1)) ELSE s

RECURSIVE lstrip_dots(_)
\* .lstrip(".")
lstrip_dots(s) == IF Len(s) > 0 /\ Head(s) = "." THEN lstrip_dots(Tail(s)) ELSE s

\* r"\d+" on the whole of s
all_digits(s) == Len(s) > 0 /\ \A i \in 1 .. Len(s) : At(s, i) \in Chars(Digits)

RECURSIVE split_dots(_, _)
\* s.split("."), with cur the part read so far
split_dots(s, cur) ==
    IF Len(s) = 0 THEN <<cur>>
    ELSE IF Head(s) = "." THEN <<cur>> \o split_dots(Tail(s), "")
    ELSE split_dots(Tail(s), cur \o At(s, 1))

\* r"\d+(\.\d+){n-1}" on the whole of s
dotted_number(s, n) ==
    /\ Len(split_dots(s, "")) = n
    /\ \A k \in 1 .. n : all_digits(split_dots(s, "")[k])

\* r"(i{1,3}|iv|v|vi{0,3}|ix|x)" with re.I on the whole of s
RomanBullets == {"i", "ii", "iii", "iv", "v", "vi", "vii", "viii", "ix", "x"}
roman_bullet(s) == lower(s) \in RomanBullets

\* r"[a-z]" and r"[A-Z]" on the whole of s
lower_letter(s) == Len(s) = 1 /\ s \in Chars(Lower)
upper_letter(s) == Len(s) = 1 /\ s \in Chars(Upper)

\* '$' of re.match: the end of the string, or the place before a newline
\* that ends the string
before_end(s) ==
    IF Len(s) > 0 /\ At(s, Len(s)) = "\n" THEN {s, SubSeq(s, 1, Len(s) - 1)}
    ELSE {s}

BulletInfo(level, type, value) == [level |-> level, type |-> type, value |-> value]

\* the chain of re.match tests of get_bullet_level
classify(clean) ==
    IF \E m \in before_end(clean) : roman_bullet(m)
      THEN BulletInfo(3, "roman", clean)
    ELSE IF \E m \in before_end(clean) : lower_letter(m)
      THEN BulletInfo(2, "letter", clean)
    ELSE IF \E m \in before_end(clean) : upper_letter(m)
      THEN BulletInfo(2, "letter-upper", clean)
    ELSE IF \E m \in before_end(clean) : all_digits(m)
      THEN BulletInfo(1, "number", clean)
    ELSE IF \E m \in before_end(clean) : dotted_number(m, 3)
      THEN BulletInfo(3, "number-dot-dot", clean)
    ELSE IF \E m \in before_end(clean) : dotted_number(m, 2)
      THEN BulletInfo(2, "number-dot", clean)
    ELSE BulletInfo(0, "unknown", clean)

get_bullet_level(bullet_) ==
    IF Len(bullet_) = 0 THEN BulletInfo(0, "none", "")
    ELSE classify(rstrip_dots(strip(bullet_)))

\* hierarchical_levels[:lvl]
keep_levels(levels, lvl) ==
    SubSeq(levels, 1, IF Len(levels) < lvl THEN Len(levels) ELSE lvl)

\* "Insert or update current level" on the truncated list
put_level(levels, lvl, value) ==
    IF Len(levels) < lvl THEN Append(levels, value)
    ELSE [levels EXCEPT ![lvl] = value]

\* build_hierarchical_number: the list it leaves and the label it returns
build_hierarchical_number(bullet_info, levels) ==
    IF bullet_info.level = 0 THEN [levels |-> levels, label |-> ""]
    ELSE [levels |-> put_level(keep_levels(levels, bullet_info.level),
                              bullet_info.level, bullet_info.value),
          label |-> lstrip_dots(
                      join(".", put_level(keep_levels(levels, bullet_info.level),
                                          bullet_info.level, bullet_info.value)))]

\* a paragraph as the loop reads it: para.Text, whether
\* para.ListFormat.ListType != ListType.NoList, and para.ListText
DecodePara(text, listed, list_text) ==
    [Text |-> text, listed |-> listed, ListText |-> list_text]

NoPara == DecodePara("", FALSE, "")

\* the list texts of the documents
ListTexts == {"", "1.", "2.", "a.", "B.", "i.", "1.1", "1.2.3", "b)", " 3. "}

DecodeParagraphs ==
    {DecodePara("Scope", TRUE, lt) : lt \in ListTexts}
      \cup {DecodePara("Scope", FALSE, ""), DecodePara(" ", FALSE, ""),
            DecodePara(" ", TRUE, "1.")}

\* rows_data = [], hierarchical_levels = []
DecodeInit ==
    /\ para = NoPara
    /\ hierarchical_levels = <<>>
    /\ bullet_text = ""
    /\ rows_data = <<>>

(***************************************************************************)
(* The main pass, process_docx_file.                                        *)
(***************************************************************************)
\* is_top_level = bullet == "" or "." not in bullet
is_top_level(bullet_) == Len(bullet_) = 0 \/ ~contains(".", bullet_)

\* mutant of updates_header: the test of is_top_level is lost
updates_header_short_only(style_name, word_count, bullet_) ==
    \/ contains("heading", style_name)
    \/ word_count <= ShortWords

\* "heading" in style_name or (word_count <= 6 and is_top_level)
updates_header(style_name, word_count, bullet_) ==
    \/ contains("heading", style_name)
    \/ (word_count <= ShortWords /\ is_top_level(bullet_))

\* f"SEE TABLE_{self.table_counter} below"
see_table(n) ==
    "SEE TABLE_" \o str(n) \o " below"

\* __init__
Init ==
    /\ numbering_map = <<>>
    /\ global_counters = [l \in AllLevels |-> 0]
    /\ global_stack = <<>>
    /\ last_numId = None
    /\ last_ilvl = -1
    /\ element = NoElement
    /\ bullet = ""
    /\ para_text = ""
    /\ pc = "idle"
    /\ body = <<>>
    /\ document = <<>>
    /\ markdown_output = None
    /\ labels = <<>>
    /\ history = <<>>
    /\ current_header = ""
    /\ data = <<>>
    /\ tables = <<>>
    /\ table_counter = 0
    /\ para_id_counter = DefaultStartIndex
    /\ DecodeInit

\* the tracker variables take the values of the tracker state st
SetTracker(st) ==
    /\ global_counters' = st.global_counters
    /\ global_stack' = st.global_stack
    /\ last_numId' = st.last_numId
    /\ last_ilvl' = st.last_ilvl

\* mutant of StartPass: the tracker is not cleared
StartPass_keeps_tracker(start_index, map) ==
    /\ pc = "idle"
    /\ pc' = "main"
    /\ para_id_counter' = start_index
    /\ numbering_map' = map
    /\ current_header' = ""
    /\ element' = NoElement
    /\ body' = <<>>
    /\ document' = <<>>
    /\ markdown_output' = None
    /\ labels' = <<>>
    /\ UNCHANGED <<tracker, bullet, para_text, data, tables, table_counter,
                   history>>
    /\ UNCHANGED decode

\* process_docx_file up to its loop: the document is opened, the catalog is
\* read and the tracker is cleared
StartPass(start_index, map) ==
    /\ pc = "idle"
    /\ pc' = "main"
    /\ para_id_counter' = start_index
    /\ numbering_map' = map
    /\ SetTracker(ClearedTracker)
    /\ current_header' = ""
    /\ element' = NoElement
    /\ body' = <<>>
    /\ document' = <<>>
    /\ markdown_output' = None
    /\ labels' = <<>>
    /\ UNCHANGED <<bullet, para_text, data, tables, table_counter, history>>
    /\ UNCHANGED decode

\* the header after a paragraph of the given style, text and label
header_after(header, style, text, bullet_) ==
    IF updates_header(lower(style), word_count_of(text), bullet_)
      THEN strip(text) ELSE header

\* one iteration of the loop on a paragraph element
BodyParagraph(p) ==
    /\ pc = "main"
    /\ Len(body) < MaxElems
    /\ \E r \in {extract_text_from_paragraph(numbering_map, TrackerState, p)} :
       \E header \in {header_after(current_header, p.style, r.text, r.bullet)} :
           /\ SetTracker(r.state)
           /\ bullet' = r.bullet
           /\ para_text' = r.text
           /\ labels' = Append(labels, r.bullet)
           /\ IF Len(r.text) = 0
                THEN UNCHANGED <<current_header, data, para_id_counter>>
                ELSE /\ current_header' = header
                     /\ data' = Append(data,
                                       [para_id |-> str(para_id_counter),
                                        header |-> header,
                                        para_text |-> r.text,
                                        bullet |-> r.bullet])
                     /\ para_id_counter' = para_id_counter + 1
    /\ element' = p
    /\ body' = Append(body, p)
    /\ UNCHANGED <<numbering_map, pc, tables, table_counter, document, markdown_output,
                   history>>
    /\ UNCHANGED decode

\* one iteration of the loop on a table element
BodyTable(t) ==
    /\ pc = "main"
    /\ Len(body) < MaxElems
    /\ \E r \in {process_table(numbering_map, TrackerState, t)} :
           /\ SetTracker(r.state)
           /\ table_counter' = table_counter + 1
           /\ IF Len(r.md) > 0
                THEN /\ tables' = Append(tables,
                                         [index |-> table_counter + 1,
                                          content |-> r.md])
                     /\ data' = Append(data,
                                       [para_id |-> str(para_id_counter),
                                        header |-> current_header,
                                        para_text |-> see_table(table_counter + 1)])
                     /\ para_id_counter' = para_id_counter + 1
                ELSE UNCHANGED <<tables, data, para_id_counter>>
    /\ element' = t
    /\ body' = Append(body, t)
    /\ UNCHANGED <<numbering_map, pc, bullet, para_text, current_header,
                   document, markdown_output, labels, history>>
    /\ UNCHANGED decode

\* what history keeps of a pass that ended
PassRecord(pass, elements, labels_) ==
    [pass |-> pass, map |-> numbering_map, elements |-> elements,
     labels |-> labels_]

\* the end of the loop: the markdown table is returned when rows were
\* collected, the plain-text pass runs otherwise
FinishPass ==
    /\ pc = "main"
    /\ document' = body
    /\ history' = Append(history, PassRecord("main", body, labels))
    /\ IF Len(data) > 0
         THEN /\ pc' = "done"
              /\ markdown_output' = generate_markdown_table_with_header(data, tables)
         ELSE /\ pc' = "fallback"
              /\ UNCHANGED markdown_output
    /\ UNCHANGED <<numbering_map, tracker, element, bullet, para_text, body,
                   labels, current_header, data, tables, table_counter,
                   para_id_counter>>
    /\ UNCHANGED decode

\* an exception inside the loop, raised while element e is handled and
\* before anything but the table counter was written for it: the except
\* branch runs the plain-text pass on the document, which ends with e
AbandonPass(e) ==
    /\ pc = "main"
    /\ Len(body) < MaxElems
    /\ pc' = "fallback"
    /\ document' = Append(body, e)
    /\ history' = Append(history, PassRecord("main", body, labels))
    /\ table_counter' = IF e.kind = "tbl" THEN table_counter + 1 ELSE table_counter
    /\ UNCHANGED <<numbering_map, tracker, element, bullet, para_text, body,
                   markdown_output, labels, current_header, data, tables,
                   para_id_counter>>
    /\ UNCHANGED decode

\* extract_plain_text, called by process_docx_file, which returns its result
ExtractPlainText ==
    /\ pc = "fallback"
    /\ pc' = "done"
    /\ \E r \in {extract_plain_text(numbering_map, tables, document)} :
           /\ SetTracker(r.state)
           /\ tables' = r.tables
           /\ labels' = r.labels
           /\ markdown_output' = r.result
           /\ history' = Append(history, PassRecord("fallback", document, r.labels))
    /\ UNCHANGED <<numbering_map, element, bullet, para_text, body, document,
                   current_header, data, table_counter, para_id_counter>>
    /\ UNCHANGED decode

\* extract_plain_text when Document(file_path) raises: the except branch
\* returns "" and there is no further attempt
FallbackFails ==
    /\ pc = "fallback"
    /\ pc' = "done"
    /\ markdown_output' = ""
    /\ UNCHANGED <<numbering_map, tracker, element, bullet, para_text, body,
                   document, labels, history, current_header, data, tables,
                   table_counter, para_id_counter>>
    /\ UNCHANGED decode

Next ==
    \/ \E i \in StartIndexes, map \in Catalogs : StartPass(i, map)
    \/ \E p \in BodyParagraphs : BodyParagraph(p)
    \/ \E t \in BodyTables : BodyTable(t)
    \/ FinishPass
    \/ \E e \in FailingElements : AbandonPass(e)
    \/ ExtractPlainText
    \/ FallbackFails

Spec == Init /\ [][Next]_vars

(***************************************************************************)
(* One instance used for several documents: process_docx_file returns and   *)
(* is called again, with or without clear_data in between.                  *)
(***************************************************************************)
\* The instance handles at most MaxSessions documents.
MaxSessions == 2

RECURSIVE main_elements(_)
\* the number of elements the main passes recorded in h handled
main_elements(h) ==
    IF Len(h) = 0 THEN 0
    ELSE (IF h[1].pass = "main" THEN Len(h[1].elements) ELSE 0)
         + main_elements(Tail(h))

\* the elements handled by all main passes, the running one included
SessionWork == main_elements(history) + (IF pc = "main" THEN Len(body) ELSE 0)

\* the number of calls of process_docx_file that have left the main loop
SessionsDone == Cardinality({k \in 1 .. Len(history) : history[k].pass = "main"})

\* process_docx_file has returned; the caller keeps the instance
Return ==
    /\ pc = "done"
    /\ SessionsDone < MaxSessions
    /\ pc' = "idle"
    /\ UNCHANGED <<numbering_map, tracker, element, bullet, para_text, body,
                   document, markdown_output, labels, history, current_header, data,
                   tables, table_counter, para_id_counter>>
    /\ UNCHANGED decode

\* clear_data, between two calls
ClearData ==
    /\ pc = "idle"
    /\ data' = <<>>
    /\ tables' = <<>>
    /\ table_counter' = 0
    /\ UNCHANGED <<numbering_map, tracker, element, bullet, para_text, pc, body,
                   document, markdown_output, labels, history, current_header,
                   para_id_counter>>
    /\ UNCHANGED decode

SessionParagraphs ==
    {Paragraph(StyleNormal, TextShort, np) : np \in {NumPr("1", 0), NumPr("1", 1)}}
SessionTables == {TableNumbered}

SessionNext ==
    \/ \E i \in StartIndexes : StartPass(i, MainCatalog)
    \/ \E p \in SessionParagraphs : SessionWork < MaxElems /\ BodyParagraph(p)
    \/ \E t \in SessionTables : SessionWork < MaxElems /\ BodyTable(t)
    \/ FinishPass
    \/ \E e \in SessionTables : SessionWork < MaxElems /\ AbandonPass(e)
    \/ ExtractPlainText
    \/ FallbackFails
    \/ Return
    \/ ClearData

SpecSessions == Init /\ [][SessionNext]_vars

(***************************************************************************)
(* The unit harness: extract_text_from_paragraph called on any paragraph,   *)
(* in any order, on a tracker that was cleared for a catalog. body lists    *)
(* the paragraphs of the calls made.                                        *)
(***************************************************************************)
HarnessInit ==
    /\ numbering_map \in Catalogs
    /\ global_counters = ClearedTracker.global_counters
    /\ global_stack = ClearedTracker.global_stack
    /\ last_numId = ClearedTracker.last_numId
    /\ last_ilvl = ClearedTracker.last_ilvl
    /\ element = NoElement
    /\ bullet = ""
    /\ para_text = ""
    /\ pc = "main"
    /\ body = <<>>
    /\ document = <<>>
    /\ markdown_output = None
    /\ labels = <<>>
    /\ history = <<>>
    /\ current_header = ""
    /\ data = <<>>
    /\ tables = <<>>
    /\ table_counter = 0
    /\ para_id_counter = DefaultStartIndex
    /\ DecodeInit

\* bullet, text = self.extract_text_from_paragraph(paragraph)
ExtractText(p) ==
    /\ Len(body) < MaxCalls
    /\ \E r \in {extract_text_from_paragraph(numbering_map, TrackerState, p)} :
           /\ SetTracker(r.state)
           /\ bullet' = r.bullet
           /\ para_text' = r.text
           /\ labels' = Append(labels, r.bullet)
    /\ element' = p
    /\ body' = Append(body, p)
    /\ UNCHANGED <<numbering_map, pc, current_header, data, tables,
                   table_counter, para_id_counter, document, markdown_output,
                   history>>
    /\ UNCHANGED decode

HarnessNext == \E p \in HarnessParagraphs : ExtractText(p)

SpecTracker == HarnessInit /\ [][HarnessNext]_vars

(***************************************************************************)
(* The formatter harness: one call of extract_text_from_paragraph on a      *)
(* tracker that has counted c0 paragraphs at level 0 and then c1 paragraphs *)
(* at level 1 of one definition, so that to_letter and to_roman are applied *)
(* to every counter value up to MaxValue.                                   *)
(***************************************************************************)
\* the tracker after c0 calls at level 0 followed by c1 calls at level 1, all
\* with definition numId, from the cleared tracker
counted_state(map, numId, c0, c1) ==
    [global_counters |->
       [l \in AllLevels |-> IF l = 0 THEN c0 ELSE IF l = 1 THEN c1 ELSE 0],
     global_stack |->
       [l \in (IF c1 > 0 THEN {0, 1} ELSE IF c0 > 0 THEN {0} ELSE {}) |->
          format_value(map, numId, l, IF l = 0 THEN c0 ELSE c1)],
     last_numId |-> IF c0 + c1 > 0 THEN numId ELSE None,
     last_ilvl |-> IF c1 > 0 THEN 1 ELSE IF c0 > 0 THEN 0 ELSE -1]

\* definition "2" has the letter kinds, definition "3" upperRoman
FormatIds == {"2", "3"}

\* the trackers the formatter harness starts from: n - 1 paragraphs counted at
\* level 0, or n at level 0 and n - 1 at level 1
FormatStates ==
    {counted_state(MainCatalog, id, n - 1, 0) : id \in FormatIds, n \in 1 .. MaxValue}
      \cup {counted_state(MainCatalog, id, n, n - 1) :
               id \in FormatIds, n \in 1 .. MaxValue}

FormatParagraphs ==
    {Paragraph(StyleNormal, TextShort, NumPr(id, l)) : id \in FormatIds, l \in {0, 1}}

FormatInit ==
    /\ numbering_map = MainCatalog
    /\ \E st \in FormatStates :
         /\ global_counters = st.global_counters
         /\ global_stack = st.global_stack
         /\ last_numId = st.last_numId
         /\ last_ilvl = st.last_ilvl
    /\ element = NoElement
    /\ bullet = ""
    /\ para_text = ""
    /\ pc = "main"
    /\ body = <<>>
    /\ document = <<>>
    /\ markdown_output = None
    /\ labels = <<>>
    /\ history = <<>>
    /\ current_header = ""
    /\ data = <<>>
    /\ tables = <<>>
    /\ table_counter = 0
    /\ para_id_counter = DefaultStartIndex
    /\ DecodeInit

\* one call per run
FormatNext == body = <<>> /\ \E p \in FormatParagraphs : ExtractText(p)

SpecFormat == FormatInit /\ [][FormatNext]_vars

(***************************************************************************)
(* The paragraph loop of decode.py, one paragraph per step.                 *)
(***************************************************************************)
\* one iteration of "for p_idx in range(section.Paragraphs.Count)"
DecodeParagraph(p) ==
    /\ Len(rows_data) < MaxRows
    /\ para' = p
    /\ IF Len(strip(p.Text)) = 0
         THEN UNCHANGED <<hierarchical_levels, bullet_text, rows_data>>
         ELSE \E r \in {IF p.listed
                           THEN build_hierarchical_number(
                                  get_bullet_level(strip(p.ListText)),
                                  hierarchical_levels)
                           ELSE [levels |-> <<>>, label |-> ""]} :
                /\ hierarchical_levels' = r.levels
                /\ bullet_text' = r.label
                /\ rows_data' = Append(rows_data, <<strip(p.Text), r.label>>)
    /\ UNCHANGED debug

DecodeNext == \E p \in DecodeParagraphs : DecodeParagraph(p)

SpecDecode == Init /\ [][DecodeNext]_vars

(***************************************************************************)
(* Vocabulary of the properties.                                            *)
(***************************************************************************)
\* e is a paragraph that carries a numbering reference with a definition id
IsNumbered(e) == e.kind = "p" /\ ~no_numbering(e.numPr)
\* e is a paragraph without a usable numbering reference
IsUnnumbered(e) == e.kind = "p" /\ no_numbering(e.numPr)
\* this step handled one more element, and it is a paragraph
ParagraphStep == Len(body') = Len(body) + 1 /\ element'.kind = "p"
\* this step handled a paragraph with a definition id
NumberedStep == ParagraphStep /\ IsNumbered(element')
\* this step of the main pass rendered a table
TableStep == Len(body') = Len(body) + 1 /\ element'.kind = "tbl"
\* the rendered-label cache entries 0..l, in level order
StackParts(stack, l) == [k \in 1 .. (l + 1) |-> stack[k - 1]]
\* the number of '.' separators of a label
Dots(label) == Cardinality({i \in 1 .. Len(label) : At(label, i) = "."})
\* the numbering references of the elements handled so far
BodyRefs == [k \in 1 .. Len(body) |-> body[k].numPr]

(***************************************************************************)
(* C1. A paragraph without a numbering reference performs a full reset of   *)
(* the counter state (counters and rendered labels cleared, last_numId =    *)
(* None, last_ilvl = -1), so the first numbered paragraph after it is       *)
(* counted from 1 at its level. The source returns "" before it touches     *)
(* the counter state, so the statement fails.                               *)
(***************************************************************************)
C1_FullReset ==
    [][/\ (ParagraphStep /\ IsUnnumbered(element'))
            => TrackerState' = ClearedTracker
       /\ (IsUnnumbered(element) /\ NumberedStep)
            => global_counters'[element'.numPr.ilvl] = 1]_vars

(***************************************************************************)
(* C2. Immediately after a numbered paragraph at level L, counters[i] = 0   *)
(* and the rendered-label cache has no entry i, for every level i with      *)
(* L < i <= 8.                                                              *)
(***************************************************************************)
C2_DeeperReset ==
    IsNumbered(element) =>
        \A i \in AllLevels :
            i > element.numPr.ilvl =>
                global_counters[i] = 0 /\ i \notin DOMAIN global_stack

\* a numbered paragraph at a shallower level has followed one at a deeper
\* level, whose counter was 1 and is 0 again
C2_Witness ==
    /\ Len(body) = 3
    /\ \A k \in 1 .. 3 : IsNumbered(body[k])
    /\ body[1].numPr.ilvl = 0
    /\ body[2].numPr.ilvl = NumLevels - 1
    /\ body[3].numPr.ilvl = 1
    /\ global_counters[NumLevels - 1] = 0
    /\ global_counters[1] = 1

(***************************************************************************)
(* C3. A numbered paragraph at level L leaves counters[i] unchanged for     *)
(* every level i < L, also when L jumps past levels never visited.          *)
(***************************************************************************)
C3_ShallowerUnchanged ==
    [][NumberedStep =>
         \A i \in AllLevels :
             i < element'.numPr.ilvl => global_counters'[i] = global_counters[i]]_vars

\* level 0 was counted twice, then a paragraph jumped to the deepest level:
\* level 0 keeps its 2 and the level in between stays at 0
C3_Witness ==
    /\ Len(body) = 3
    /\ \A k \in 1 .. 3 : IsNumbered(body[k])
    /\ body[1].numPr.ilvl = 0
    /\ body[2].numPr.ilvl = 0
    /\ body[3].numPr.ilvl = NumLevels - 1
    /\ global_counters[0] = 2
    /\ global_counters[1] = 0
    /\ global_counters[NumLevels - 1] = 1

(***************************************************************************)
(* C4. From a fresh counter state the observations (1,0), (1,1), (1,1),     *)
(* (1,0) under a decimal definition are labelled "1", "1.1", "1.2", "2".    *)
(* In general a repeated observation at the same level under the same       *)
(* definition adds exactly 1 to that level's counter and keeps the          *)
(* shallower components, and a return to a shallower level adds 1 to that   *)
(* level's counter and drops all deeper components.                         *)
(***************************************************************************)
C4_Refs == <<NumPr("1", 0), NumPr("1", 1), NumPr("1", 1), NumPr("1", 0)>>
C4_Labels == <<"1", "1.1", "1.2", "2">>

\* the pass started with four paragraphs that carry C4_Refs, and
\* definition "1" is decimal at both levels
C4_Sequence ==
    /\ Len(body) >= Len(C4_Refs)
    /\ \A k \in 1 .. Len(C4_Refs) : body[k].kind = "p" /\ body[k].numPr = C4_Refs[k]
    /\ lookup_fmt(numbering_map, "1", 0) = "decimal"
    /\ lookup_fmt(numbering_map, "1", 1) = "decimal"

C4_SequenceLabels ==
    /\ Len(data) >= Len(C4_Labels)
    /\ \A k \in 1 .. Len(C4_Labels) : data[k].bullet = C4_Labels[k]

C4_Counting ==
    [][/\ C4_Sequence' => C4_SequenceLabels'
       /\ (NumberedStep /\ last_numId = element'.numPr.numId
             /\ last_ilvl = element'.numPr.ilvl)
            => /\ global_counters'[last_ilvl] = global_counters[last_ilvl] + 1
               /\ bullet' =
                    join_label(
                      Append(StackParts(global_stack, last_ilvl - 1),
                             format_value(numbering_map, last_numId, last_ilvl,
                                          global_counters[last_ilvl] + 1)))
       /\ (NumberedStep /\ element'.numPr.ilvl < last_ilvl)
            => /\ global_counters'[element'.numPr.ilvl]
                    = global_counters[element'.numPr.ilvl] + 1
               /\ Dots(bullet') = element'.numPr.ilvl
               /\ \A i \in AllLevels :
                    i > element'.numPr.ilvl =>
                        global_counters'[i] = 0 /\ i \notin DOMAIN global_stack'
      ]_vars

\* the four paragraphs were handled and the fourth label is "2"
C4_Witness ==
    /\ Len(body) = Len(C4_Refs)
    /\ C4_Sequence
    /\ C4_SequenceLabels
    /\ bullet = "2"

(***************************************************************************)
(* C5. The numeral formatter is only ever given a counter value >= 1: no    *)
(* level 0..L of the label being built has a counter that is 0. The source  *)
(* has no such guard: a paragraph that jumps to a level whose shallower     *)
(* levels were never counted formats their 0.                               *)
(***************************************************************************)
C5_FormatterArgsPositive ==
    IsNumbered(element) =>
        \A i \in 0 .. element.numPr.ilvl : global_counters[i] >= 1

C7_TableKeepsTracker == [][TableStep => TrackerState' = TrackerState]_vars

(***************************************************************************)
(* C8. When a numbered paragraph at level L follows an observation at the   *)
(* same level L, counters[L] restarts (the paragraph's last component is    *)
(* the numeral of 1) exactly when the kind looked up for (last_numId, L)    *)
(* differs from the kind looked up for (numId, L); after an observation at  *)
(* another level, or none, the counter is only incremented.                 *)
(***************************************************************************)
C8_FormatChangeReset ==
    [][NumberedStep =>
         IF /\ last_ilvl = element'.numPr.ilvl
            /\ lookup_fmt(numbering_map, last_numId, last_ilvl)
                 # lookup_fmt(numbering_map, element'.numPr.numId, last_ilvl)
           THEN /\ global_counters[last_ilvl] >= 1
                /\ global_counters'[last_ilvl] = 1
                /\ global_stack'[last_ilvl]
                     = format_value(numbering_map, element'.numPr.numId,
                                    last_ilvl, 1)
           ELSE global_counters'[element'.numPr.ilvl]
                  = global_counters[element'.numPr.ilvl] + 1]_vars

\* level 0 was counted twice as decimal, then a paragraph of definition "2"
\* (upperLetter at level 0) restarted it: its label is "A"
C8_Witness ==
    /\ numbering_map = MainCatalog
    /\ BodyRefs = <<NumPr("1", 0), NumPr("1", 0), NumPr("2", 0)>>
    /\ global_counters[0] = 1
    /\ bullet = "A"

(***************************************************************************)
(* C9. A definition id or level absent from the catalog behaves as          *)
(* {decimal, "%1"}: a run of paragraphs that reference an undefined         *)
(* definition id, from a fresh state, is labelled with decimal numerals     *)
(* starting at 1.                                                           *)
(***************************************************************************)
\* every call so far referenced a definition id the catalog does not hold
C9_UndefinedRun ==
    /\ Len(body) > 0
    /\ \A k \in 1 .. Len(body) :
         IsNumbered(body[k]) /\ body[k].numPr.numId \notin DOMAIN numbering_map

C9_UndefinedIsDecimal ==
    /\ C9_UndefinedRun =>
         /\ bullet = join_label([k \in 1 .. (last_ilvl + 1) |->
                                   str(global_counters[k - 1])])
         /\ (\A k \in 1 .. Len(body) : body[k].numPr.ilvl = last_ilvl)
              => global_counters[last_ilvl] = Len(body)
    /\ (/\ IsNumbered(element)
        /\ \/ element.numPr.numId \notin DOMAIN numbering_map
           \/ element.numPr.ilvl \notin DOMAIN numbering_map[element.numPr.numId])
         => global_stack[element.numPr.ilvl]
              = str(global_counters[element.numPr.ilvl])

\* three paragraphs of the undefined definition "9" at level 0, under a
\* catalog that defines other ids: the third label is "3"
C9_Witness ==
    /\ numbering_map = MainCatalog
    /\ BodyRefs = <<NumPr("9", 0), NumPr("9", 0), NumPr("9", 0)>>
    /\ bullet = "3"

(***************************************************************************)
(* C10. The label of a numbered paragraph at level L is the rendered-label  *)
(* cache entries 0..L joined by '.', in level order, with L + 1 components; *)
(* after the call the cache holds entries for the levels 0..L only.         *)
(***************************************************************************)
C10_LabelIsStack ==
    /\ last_ilvl >= 0 => DOMAIN global_stack = 0 .. last_ilvl
    /\ IsNumbered(element) =>
         /\ last_ilvl = element.numPr.ilvl
         /\ bullet = join_label(StackParts(global_stack, last_ilvl))
         /\ Dots(bullet) = last_ilvl

\* a paragraph at level 1 followed one at the deepest level: the cache holds
\* levels 0 and 1 and the label has two components
C10_Witness ==
    /\ Len(body) = 2
    /\ IsNumbered(body[1]) /\ body[1].numPr.ilvl = NumLevels - 1
    /\ IsNumbered(body[2]) /\ body[2].numPr.ilvl = 1
    /\ DOMAIN global_stack = {0, 1}
    /\ Dots(bullet) = 1

(***************************************************************************)
(* C11. A level whose kind is lowerLetter is rendered as a lower-case       *)
(* letter only if the kind of the immediately shallower level, under the    *)
(* same definition, is upperLetter or lowerLetter; otherwise, and at level  *)
(* 0, its counter is rendered as a plain decimal string.                    *)
(***************************************************************************)
LetterKinds == {"upperLetter", "lowerLetter"}

C14_EmptyIffUnnumbered ==
    element.kind = "p" =>
        /\ (bullet = "") <=> IsUnnumbered(element)
        /\ IsNumbered(element) =>
             /\ global_counters[element.numPr.ilvl] >= 1
             /\ global_stack[element.numPr.ilvl] # ""
             /\ global_stack[element.numPr.ilvl] =
                  format_value(numbering_map, element.numPr.numId,
                               element.numPr.ilvl,
                               global_counters[element.numPr.ilvl])
             /\ endswith(bullet, global_stack[element.numPr.ilvl])

\* after a paragraph of definition "2" at level 1, labelled ".a" (the level-0
\* component is empty, the last is not), a paragraph whose numId is the
\* empty string gets the empty label
C14_Witness ==
    /\ numbering_map = MainCatalog
    /\ BodyRefs = <<NumPr("2", 1), NumPr("", 0)>>
    /\ global_stack[1] = "a"
    /\ bullet = ""

(***************************************************************************)
(* C15. The leading numeral is stripped from a paragraph's text only when   *)
(* a non-empty label was produced for it; with an empty label the text is   *)
(* the extracted raw text unchanged, even if it begins with "1." or "a)".   *)
(***************************************************************************)
C15_StripOnlyWhenLabelled ==
    element.kind = "p" =>
        /\ bullet = "" => para_text = extract_insertions_only(element)
        /\ bullet # "" => para_text = strip_numbering(extract_insertions_only(element))
        /\ (bullet = "" /\ element.children = TextShort) => para_text = "1. Scope"
        /\ (bullet = "" /\ element.children = TextParen) => para_text = "a) Terms"
        /\ (bullet # "" /\ element.children = TextShort) => para_text = "Scope"
        /\ (bullet # "" /\ element.children = TextParen) => para_text = "Terms"

\* "a) Terms" was stripped to "Terms" under the label "1"; the unlabelled
\* paragraph after it keeps "a) Terms"
C15_Witness ==
    /\ Len(body) = 2
    /\ IsNumbered(body[1]) /\ body[1].children = TextParen
    /\ IsUnnumbered(body[2]) /\ body[2].children = TextParen
    /\ bullet = ""
    /\ para_text = "a) Terms"

(***************************************************************************)
(* The trackers of FormatStates are states of the program: in the unit      *)
(* harness, calls with one definition at level 0 and then at level 1 leave  *)
(* counted_state.                                                           *)
(***************************************************************************)
CountedStateIsReached ==
    (/\ Len(body) > 0
     /\ \A k \in 1 .. Len(body) :
          /\ IsNumbered(body[k])
          /\ body[k].numPr.numId = body[1].numPr.numId
          /\ body[k].numPr.ilvl \in {0, 1}
          /\ k > 1 => body[k - 1].numPr.ilvl <= body[k].numPr.ilvl)
      => TrackerState =
           counted_state(numbering_map, body[1].numPr.numId,
                         Cardinality({k \in 1 .. Len(body) : body[k].numPr.ilvl = 0}),
                         Cardinality({k \in 1 .. Len(body) : body[k].numPr.ilvl = 1}))

(***************************************************************************)
(* C16. For every value >= 1, to_letter returns the bijective base-26       *)
(* numeral: 1 -> "A", 26 -> "Z", 27 -> "AA"; every digit is a letter A..Z   *)
(* of index 1..26 (no zero digit), the value is the sum of letter index *   *)
(* 26^position (so distinct values give distinct strings), and the          *)
(* lowerLetter numeral is the same string lower-cased.                      *)
(***************************************************************************)
\* the index 1..26 of a letter of alphabet
letter_index(alphabet, c) == CHOOSE i \in 1 .. Len(alphabet) : At(alphabet, i) = c

RECURSIVE letter_value(_, _)
\* the sum of letter index * 26^position, the last letter at position 0
letter_value(alphabet, s) ==
    IF Len(s) = 0 THEN 0
    ELSE letter_value(alphabet, SubSeq(s, 1, Len(s) - 1)) * LetterBase
           + letter_index(alphabet, At(s, Len(s)))

\* s is the bijective base-26 numeral of n over alphabet
IsLetterNumeral(alphabet, s, n) ==
    /\ Len(s) >= 1
    /\ \A i \in 1 .. Len(s) : At(s, i) \in Chars(alphabet)
    /\ letter_value(alphabet, s) = n

\* definition "2": upperLetter at level 0, lowerLetter at level 1
C16_LetterNumeral ==
    (IsNumbered(element) /\ element.numPr.numId = "2") =>
        /\ global_counters[0] >= 1 =>
             /\ IsLetterNumeral(Upper, global_stack[0], global_counters[0])
             /\ global_counters[0] = 1 => global_stack[0] = "A"
             /\ global_counters[0] = LetterBase => global_stack[0] = "Z"
             /\ global_counters[0] = LetterBase + 1 => global_stack[0] = "AA"
        /\ element.numPr.ilvl = 1 =>
             /\ IsLetterNumeral(Lower, global_stack[1], global_counters[1])
             /\ global_counters[1] = global_counters[0]
                  => global_stack[1] = lower(global_stack[0])

\* the 27th paragraph at level 1 under the 27th at level 0: "AA.aa"
C16_Witness ==
    /\ IsNumbered(element) /\ element.numPr = NumPr("2", 1)
    /\ global_counters[0] = LetterBase + 1
    /\ global_counters[1] = LetterBase + 1
    /\ bullet = "AA.aa"

(***************************************************************************)
(* C17. For every value in 1..3999 to_roman returns the classical           *)
(* additive-subtractive numeral (4 -> "IV", 9 -> "IX", 3999 ->              *)
(* "MMMCMXCIX"), whose symbol values sum back to the input; the loop ends   *)
(* for every value, and a value above 3999 only gets more leading "M"s.     *)
(***************************************************************************)
RomanOnes == <<"", "I", "II", "III", "IV", "V", "VI", "VII", "VIII", "IX">>
RomanTens == <<"", "X", "XX", "XXX", "XL", "L", "LX", "LXX", "LXXX", "XC">>
RomanHundreds == <<"", "C", "CC", "CCC", "CD", "D", "DC", "DCC", "DCCC", "CM">>

\* the classical numeral, digit by digit; one "M" per thousand
ClassicalRoman(n) ==
    repeat("M", n \div 1000) \o RomanHundreds[((n \div 100) % 10) + 1]
      \o RomanTens[((n \div 10) % 10) + 1] \o RomanOnes[(n % 10) + 1]

RomanSymbolValue(c) ==
    CASE c = "I" -> 1 [] c = "V" -> 5 [] c = "X" -> 10 [] c = "L" -> 50
      [] c = "C" -> 100 [] c = "D" -> 500 [] c = "M" -> 1000

RECURSIVE roman_value(_, _)
\* the value of the numeral s from position i on: a symbol in front of a
\* greater one is subtracted
roman_value(s, i) ==
    IF i > Len(s) THEN 0
    ELSE (IF i < Len(s) /\ RomanSymbolValue(At(s, i)) < RomanSymbolValue(At(s, i + 1))
            THEN 0 - RomanSymbolValue(At(s, i))
            ELSE RomanSymbolValue(At(s, i)))
         + roman_value(s, i + 1)

\* definition "3": upperRoman at level 0
C17_RomanNumeral ==
    (IsNumbered(element) /\ element.numPr.numId = "3" /\ global_counters[0] >= 1) =>
        /\ global_stack[0] = ClassicalRoman(global_counters[0])
        /\ roman_value(global_stack[0], 1) = global_counters[0]
        /\ global_counters[0] = 4 => global_stack[0] = "IV"
        /\ global_counters[0] = 9 => global_stack[0] = "IX"
        /\ global_counters[0] = 3999 => global_stack[0] = "MMMCMXCIX"
        /\ global_counters[0] > 3999 =>
             /\ SubSeq(global_stack[0], 1, 4) = "MMMM"
             /\ global_stack[0] = "M" \o ClassicalRoman(global_counters[0] - 1000)

\* the 3999th paragraph at level 0 of definition "3"
C17_Witness ==
    /\ IsNumbered(element) /\ element.numPr = NumPr("3", 0)
    /\ global_counters[0] = 3999
    /\ bullet = "MMMCMXCIX"

(***************************************************************************)
(* C19. When a numbered paragraph at level L is immediately followed by a   *)
(* numbered paragraph at level L + 1 under the same definition id, the      *)
(* second label is the first label, '.', and the numeral of 1 in the kind   *)
(* of level L + 1: the child label extends the parent label and starts at   *)
(* 1. (Under another definition id the prefix is rendered anew in that      *)
(* definition's kinds: after "1" of definition "1", level 1 of definition   *)
(* "2" is "A.a".)                                                           *)
(***************************************************************************)
C19_ChildExtendsParent ==
    [][(/\ NumberedStep
        /\ IsNumbered(element)
        /\ element'.numPr.numId = element.numPr.numId
        /\ element'.numPr.ilvl = element.numPr.ilvl + 1)
         => /\ global_counters'[element'.numPr.ilvl] = 1
            /\ bullet' = bullet \o "."
                           \o format_value(numbering_map, element'.numPr.numId,
                                           element'.numPr.ilvl, 1)]_vars

\* the second paragraph at level 0 of definition "2" is "B", its child "B.a"
C19_Witness ==
    /\ numbering_map = MainCatalog
    /\ BodyRefs = <<NumPr("2", 0), NumPr("2", 0), NumPr("2", 1)>>
    /\ bullet = "B.a"

\* the label of a level-1 paragraph of definition "2" that follows "1" of
\* definition "1" does not start with "1"
C19_OtherDefinitionRerenders ==
    /\ numbering_map = MainCatalog
    /\ BodyRefs = <<NumPr("1", 0), NumPr("2", 1)>>
    /\ bullet = "A.a"

(***************************************************************************)
(* Vocabulary of the passes.                                                *)
(***************************************************************************)
\* the step in which extract_plain_text ran to its end
FallbackStep == pc = "fallback" /\ pc' = "done" /\ history' # history
\* the last pass that ended was the plain-text pass
FallbackRan == Len(history) > 0 /\ history[Len(history)].pass = "fallback"

\* the paragraphs of the body that the plain-text pass renders
TextParagraphs(elements) ==
    SelectSeq(elements, LAMBDA e : e.kind = "p" /\ has_text(e))

\* every cell of the first row of table t is empty after trimming
HeaderTextBlank(t) ==
    \A c \in 1 .. Len(t.rows[1]) :
        \A k \in 1 .. Len(t.rows[1][c]) :
            Len(extract_insertions_only(t.rows[1][c][k])) = 0

\* the number of tables of the body whose first row is not blank
NonBlankTables(elements) ==
    Cardinality({k \in 1 .. Len(elements) :
                   elements[k].kind = "tbl" /\ ~HeaderTextBlank(elements[k])})

(***************************************************************************)
(* C12. Processing the same element sequence twice, each time in a session  *)
(* that clears the counter state at its start (process_docx_file, and       *)
(* extract_plain_text for the fallback), produces identical label           *)
(* sequences: no counter, cache, last_numId or last_ilvl survives from one  *)
(* session into the next.                                                   *)
(***************************************************************************)
\* two passes of the same kind over the same elements under the same catalog
SamePass(a, b) == a.pass = b.pass /\ a.map = b.map /\ a.elements = b.elements

C12_SessionsAgree ==
    /\ \A j, k \in 1 .. Len(history) :
         SamePass(history[j], history[k]) => history[j].labels = history[k].labels
    /\ pc = "main" =>
         \A k \in 1 .. Len(history) :
             SamePass(history[k], PassRecord("main", body, labels))
               => history[k].labels = labels
    /\ (pc = "main" /\ body = <<>>) => TrackerState = ClearedTracker

\* two main passes over the same two paragraphs, both labelled "1", "1.1",
\* the second pass running on the instance the first one left
C12_Witness ==
    /\ Len(history) >= 2
    /\ history[1].pass = "main"
    /\ Len(history[1].elements) = 2
    /\ history[1].labels = <<"1", "1.1">>
    /\ history[Len(history)].pass = "main"
    /\ history[Len(history)].elements = history[1].elements
    /\ history[Len(history)].labels = <<"1", "1.1">>

(***************************************************************************)
(* C13. When the main pass fails, the fallback pass runs once for the whole *)
(* document (no per-paragraph retry, no second fallback), and its output is *)
(* plain sequential text that carries no numbering labels and no inferred   *)
(* headers. The source puts the label of every numbered paragraph in front  *)
(* of its text, so the statement fails as it stands.                        *)
(***************************************************************************)
unnumbered_paragraph(p) == [p EXCEPT !.numPr = NoNumPr]
unnumbered_cell(cell) == [k \in 1 .. Len(cell) |-> unnumbered_paragraph(cell[k])]
unnumbered_row(row) == [c \in 1 .. Len(row) |-> unnumbered_cell(row[c])]
unnumbered_element(e) ==
    IF e.kind = "p" THEN unnumbered_paragraph(e)
    ELSE Table([r \in 1 .. Len(e.rows) |-> unnumbered_row(e.rows[r])])
\* the document with every numbering reference removed
Unnumbered(elements) ==
    [k \in 1 .. Len(elements) |-> unnumbered_element(elements[k])]

\* the fallback runs once, and its output is what the document without any
\* numbering reference gives
C13_FallbackWithoutLabels ==
    [][/\ pc = "fallback" => pc' = "done"
       /\ pc = "done" => pc' = "done"
       /\ FallbackStep =>
            markdown_output' =
              extract_plain_text(numbering_map, tables, Unnumbered(document)).result
      ]_vars

\* the line of the k-th rendered paragraph: its text, with the label and a
\* space in front when the label is not empty
LabelledLine(p, label) ==
    IF label = "" THEN extract_insertions_only(p)
    ELSE label \o " " \o strip_numbering(extract_insertions_only(p))

\* C13 as amended: the fallback runs once for the whole document and its
\* output is plain sequential text without inferred headers: one line per
\* paragraph, a numbered paragraph's line starting with its label counted
\* from a cleared tracker, then one reference line per table, then the
\* listing of the tables.
C13_FallbackOnceWithLabels ==
    [][/\ pc = "fallback" => pc' = "done"
       /\ pc = "done" => pc' = "done"
       /\ FallbackStep =>
            /\ current_header' = current_header
            /\ data' = data
            /\ Len(labels') = Len(TextParagraphs(document))
            /\ \A k \in 1 .. Len(labels') :
                 (labels'[k] # "") <=> IsNumbered(TextParagraphs(document)[k])
            /\ markdown_output' =
                 with_tables(
                   join("\n\n",
                        [k \in 1 .. Len(labels') |->
                           LabelledLine(TextParagraphs(document)[k], labels'[k])]
                          \o [j \in 1 .. (Len(tables') - Len(tables)) |->
                                see_table_plain(tables'[Len(tables) + j].index)]),
                   "TABLE_#", tables')
      ]_vars

\* the main pass was abandoned at the second of two numbered paragraphs; the
\* fallback rendered both with their labels
C13_Witness ==
    /\ pc = "done"
    /\ FallbackRan
    /\ Len(body) = 1
    /\ Len(document) = 2
    /\ labels = <<"1", "2">>
    /\ markdown_output = "1 Scope\n\n2 Scope"

(***************************************************************************)
(* C18. A table whose first row's cells are all empty after trimming        *)
(* renders as the empty result, whatever its later rows hold: it is not     *)
(* registered in self.tables and no "SEE TABLE" row refers to it.           *)
(***************************************************************************)
C18_BlankHeaderTable ==
    [][/\ (TableStep /\ HeaderTextBlank(element'))
            => /\ process_table(numbering_map, TrackerState, element').md = ""
               /\ tables' = tables
               /\ data' = data
       /\ FallbackStep
            => Len(tables') - Len(tables) = NonBlankTables(document)
      ]_vars

\* the second table of the body has a blank first row and a data row of
\* text: the table counter is 2, one table is registered, one row refers to
\* a table
C18_Witness ==
    /\ pc = "main"
    /\ Len(body) = 2
    /\ body[1] = TableNumbered
    /\ element = TableBlank
    /\ Len(element.rows) = 2
    /\ table_counter = 2
    /\ Len(tables) = 1
    /\ Len(data) = 1

(***************************************************************************)
(* C20. When the main pass is abandoned midway and the fallback pass runs,  *)
(* nothing accumulated by the abandoned pass leaks into the fallback        *)
(* result: each table of the document appears exactly once, under a single  *)
(* index. The source keeps self.tables of the abandoned pass and appends    *)
(* to it, so the statement fails.                                           *)
(***************************************************************************)
C20_FallbackTablesOnce ==
    (pc = "done" /\ FallbackRan) =>
        /\ Len(tables) = NonBlankTables(document)
        /\ \A i, j \in 1 .. Len(tables) :
             i # j => tables[i].index # tables[j].index

(***************************************************************************)
(* C21. In decode.py, build_hierarchical_number called with a bullet of     *)
(* level lvl >= 1 discards every hierarchy entry deeper than lvl, stores    *)
(* the bullet's value at position lvl of the hierarchy and returns the      *)
(* dot-join of the hierarchy, so the hierarchy behind the returned label    *)
(* has exactly lvl entries and its lvl-th entry is the bullet's value; a    *)
(* bullet of level 0 returns "" and leaves the hierarchy unchanged; a       *)
(* non-list paragraph clears the hierarchy. The source appends the value    *)
(* to a hierarchy shorter than lvl - 1, so the statement fails.             *)
(***************************************************************************)
\* the step in which the loop handled a paragraph with text
DecodeStep == rows_data' # rows_data
\* what get_bullet_level gives for the list text of paragraph p
InfoOf(p) == get_bullet_level(strip(p.ListText))
\* the step handled a list paragraph with text
ListStep == DecodeStep /\ para'.listed

C21_LiteralHierarchy ==
    [][/\ (ListStep /\ InfoOf(para').level >= 1) =>
            /\ Len(hierarchical_levels') = InfoOf(para').level
            /\ hierarchical_levels'[InfoOf(para').level] = InfoOf(para').value
            /\ \A k \in 1 .. (InfoOf(para').level - 1) :
                 k <= Len(hierarchical_levels)
                   => hierarchical_levels'[k] = hierarchical_levels[k]
            /\ bullet_text' = join(".", hierarchical_levels')
       /\ (ListStep /\ InfoOf(para').level = 0) =>
            /\ bullet_text' = ""
            /\ hierarchical_levels' = hierarchical_levels
       /\ (DecodeStep /\ ~para'.listed) => hierarchical_levels' = <<>>
      ]_vars

\* What holds of the source: the statement of C21 for the steps whose
\* hierarchy has at least lvl - 1 entries; on a shorter hierarchy the value is
\* appended at its end and the list stays shorter than lvl.
ListStepsWithoutSkippedLevel ==
    [][(ListStep /\ InfoOf(para').level >= 1) =>
         IF Len(hierarchical_levels) >= InfoOf(para').level - 1
           THEN /\ Len(hierarchical_levels') = InfoOf(para').level
                /\ hierarchical_levels'[InfoOf(para').level] = InfoOf(para').value
                /\ \A k \in 1 .. (InfoOf(para').level - 1) :
                     hierarchical_levels'[k] = hierarchical_levels[k]
                /\ bullet_text' = join(".", hierarchical_levels')
           ELSE /\ hierarchical_levels' =
                     Append(hierarchical_levels, InfoOf(para').value)
                /\ bullet_text' = join(".", hierarchical_levels')
      ]_vars

====
